---- MODULE Spec2Model ----
(***************************************************************************)
(* Model of generate_report.py: the alias table (expand_with_box), the     *)
(* ahead-of-time resolver (collect_config_images, discover_runs), the      *)
(* document main writes (generate_html_multi) and the script of the open   *)
(* report: the folder loader (dirPicker change handler), the run tabs and  *)
(* their remove buttons, and the compare selection.                        *)
(*                                                                         *)
(* Strings are TLA+ strings; str.lower, startswith, endswith and `in` are  *)
(* computed character by character.  A file's bytes are represented by     *)
(* their base64 text (base64 is injective; nothing here decodes it).       *)
(***************************************************************************)
EXTENDS Integers, Sequences, FiniteSets, TLC

VARIABLES
    stems,      \* expand_with_box: the argument
    variants,   \* expand_with_box: the returned list
    xpc,        \* expand_with_box: "call" before the call, "ret" after it
    fs,         \* the directory handed to the program: child name -> (entry name -> entry)
    pc,         \* "setup" | "scanned" | "loaded" | "discovered" | "written"
    listing,    \* the order in which iterdir() yielded each directory's children
    collected,  \* the list returned by collect_config_images
    byConfig,   \* the loader's byConfig map after the fallback loop (line 727)
    runs,       \* the list returned by discover_runs
    report,     \* the files main wrote: <<>> before, then <<[path, html]>>
    dom,        \* the report open in a browser: the run tab bar and what follows it
    cmp         \* the compare UI: selection list, checked boxes, button, modal

expVars == <<stems, variants, xpc>>
scanVars == <<fs, pc, listing, collected, byConfig, runs>>
uiVars == <<report, dom, cmp>>
vars == <<stems, variants, xpc, fs, pc, listing, collected, byConfig, runs,
          report, dom, cmp>>

-----------------------------------------------------------------------------
(* Bounds of the model *)

\* longest list of base stems handed to expand_with_box
MaxStems == 3
\* most files in the run directory, all configuration directories together
MaxFiles == 2

-----------------------------------------------------------------------------
(* Python / JavaScript string primitives *)

UPPERCASE == "ABCDEFGHIJKLMNOPQRSTUVWXYZ"
LOWERCASE == "abcdefghijklmnopqrstuvwxyz"

\* the characters that occur in the names of the model, in code point order
CODEPOINTS == "-.0123456789ABCDEFGHIJKLMNOPQRSTUVWXYZ_abcdefghijklmnopqrstuvwxyz"

CharAt(s, i) == SubSeq(s, i, i)

\* uppercase letter -> lowercase letter
RECURSIVE LetterMap(_)
LetterMap(i) ==
    IF i > Len(UPPERCASE) THEN <<>>
    ELSE (CharAt(UPPERCASE, i) :> CharAt(LOWERCASE, i)) @@ LetterMap(i + 1)

UpperToLower == LetterMap(1)

LowerChar(c) == IF c \in DOMAIN UpperToLower THEN UpperToLower[c] ELSE c

RECURSIVE lower(_)
lower(s) ==
    IF Len(s) = 0 THEN ""
    ELSE LowerChar(CharAt(s, 1)) \o lower(SubSeq(s, 2, Len(s)))

startswith(s, p) == Len(p) <= Len(s) /\ SubSeq(s, 1, Len(p)) = p

endswith(s, p) == Len(p) <= Len(s) /\ SubSeq(s, Len(s) - Len(p) + 1, Len(s)) = p

\* Python `sub in s`, JavaScript s.includes(sub)
contains(s, sub) ==
    \E i \in 1..(Len(s) - Len(sub) + 1) : SubSeq(s, i, i + Len(sub) - 1) = sub

Ord(c) == CHOOSE i \in 1..Len(CODEPOINTS) : CharAt(CODEPOINTS, i) = c

\* Python str <, by code point
RECURSIVE StrLess(_, _)
StrLess(a, b) ==
    IF Len(b) = 0 THEN FALSE
    ELSE IF Len(a) = 0 THEN TRUE
    ELSE IF CharAt(a, 1) = CharAt(b, 1)
         THEN StrLess(SubSeq(a, 2, Len(a)), SubSeq(b, 2, Len(b)))
         ELSE Ord(CharAt(a, 1)) < Ord(CharAt(b, 1))

-----------------------------------------------------------------------------
(* The alias table *)

MetricKeys == <<"PR", "P", "R", "F1", "CM", "CM_N">>

BASE_METRIC_STEMS ==
    [k \in {MetricKeys[i] : i \in 1..Len(MetricKeys)} |->
        CASE k = "PR" -> <<"pr_curve", "pr-curve", "prcurve", "precision_recall_curve",
                           "precision-recall", "pr">>
          [] k = "P" -> <<"p_curve", "p-curve", "pcurve", "precision_curve", "precision",
                          "boxpcurve">>
          [] k = "R" -> <<"r_curve", "r-curve", "rcurve", "recall_curve", "recall">>
          [] k = "F1" -> <<"f1_curve", "f1-curve", "f1curve", "f1">>
          [] k = "CM" -> <<"confusion_matrix", "confusion-matrix", "cm">>
          [] k = "CM_N" -> <<"confusion_matrix_normalized", "confusion-matrix-normalized",
                             "normalized_confusion_matrix", "confusion_matrix_norm",
                             "confusion-matrix-norm", "confusionmatrix_normalized",
                             "confusionmatrix-normalized", "confusion_matrix_normalised",
                             "confusion-matrix-normalised", "cm_normalized", "cm_norm",
                             "cm-normalized", "cm-norm">>]

\* line 37 with the underscore and hyphen joins in the other order
BoxVariantsHyphenFirst(s) == <<s, "box" \o s, "box-" \o s, "box_" \o s>>

\* the tuple of line 37
BoxVariants(s) == <<s, "box" \o s, "box_" \o s, "box-" \o s>>

\* every v the two loops of lines 36-37 visit, in the order they visit it
RECURSIVE Generated(_)
Generated(ss) ==
    IF ss = <<>> THEN <<>> ELSE BoxVariants(Head(ss)) \o Generated(Tail(ss))

\* line 38: the key a variant is remembered and looked up by
SeenKeyCaseSensitive(v) == v

SeenKey(v) == lower(v)

\* lines 38-41 over the visited variants, from the i-th on
RECURSIVE ExpandLoop(_, _, _, _)
ExpandLoop(gen, i, acc, seen) ==
    IF i > Len(gen) THEN acc
    ELSE LET low == SeenKey(gen[i])
         IN  IF low \notin seen
             THEN ExpandLoop(gen, i + 1, Append(acc, gen[i]), seen \cup {low})
             ELSE ExpandLoop(gen, i + 1, acc, seen)

expand_with_box(ss) == ExpandLoop(Generated(ss), 1, <<>>, {})

METRIC_ALIASES ==
    [k \in DOMAIN BASE_METRIC_STEMS |-> expand_with_box(BASE_METRIC_STEMS[k])]

ALLOWED_EXTS == <<".png", ".jpg", ".jpeg", ".webp", ".svg">>

-----------------------------------------------------------------------------
(* expand_with_box on arbitrary base stems *)

\* base stems the call is tried on: a case pair, stems that collide across
\* bases once box-prefixed, and an unrelated one
StemChoices == {"pcurve", "Pcurve", "boxpcurve", "_pcurve", "-pcurve", "cm"}

RECURSIVE SeqsUpTo(_, _)
SeqsUpTo(S, n) ==
    IF n = 0 THEN {<<>>}
    ELSE LET shorter == SeqsUpTo(S, n - 1)
         IN  shorter \cup {Append(q, x) : q \in {r \in shorter : Len(r) = n - 1}, x \in S}

ExpandArgs ==
    /\ stems \in SeqsUpTo(StemChoices, MaxStems)
    /\ variants = <<>>
    /\ xpc = "call"

ExpandWithBox ==
    /\ xpc = "call"
    /\ variants' = expand_with_box(stems)
    /\ xpc' = "ret"
    /\ UNCHANGED stems

-----------------------------------------------------------------------------
(* The run directory *)

\* immediate children of the run directory the model can create
ChildNames == {"a_config", "B_config"}

\* names a file inside a configuration directory can have
FileNames ==
    <<"boxP_curve.PNG", "boxP_curve.JPG", "precision.png", "pr_curve.jpg", "pr_curve.png",
      "confusion_matrix.png", "cm_norm.jpg", "val_batch0_labels.jpg",
      "val_batch1_labels.jpg", "val_batch0_pred.jpg", "val_batch0_labels_pred.png",
      "notes.txt">>

FileNameSet == {FileNames[i] : i \in 1..Len(FileNames)}

\* the base64 text of the bytes of the file called n: pairwise distinct
BytesB64(n) ==
    IF n \in FileNameSet
    THEN "QUJD" \o ToString(CHOOSE i \in 1..Len(FileNames) : FileNames[i] = n)
    ELSE "QUJD" \o n

NoFiles == [n \in {} |-> [is_file |-> TRUE, readable |-> TRUE, b64 |-> ""]]

\* f with f[k] set to v (dict assignment)
Assign(f, k, v) == (k :> v) @@ f

FileCount == LET RECURSIVE Sum(_)
                 Sum(D) == IF D = {} THEN 0
                           ELSE LET d == CHOOSE x \in D : TRUE
                                IN  Cardinality(DOMAIN fs[d].files) + Sum(D \ {d})
             IN  Sum(DOMAIN fs)

RECURSIVE Perms(_)
Perms(S) ==
    IF S = {} THEN {<<>>}
    ELSE UNION {{<<x>> \o q : q \in Perms(S \ {x})} : x \in S}

\* one order in which iterdir() can yield the children of every directory
Enumerations ==
    [top : Perms(DOMAIN fs),
     files : {e \in [DOMAIN fs -> UNION {Perms(DOMAIN fs[d].files) : d \in DOMAIN fs}] :
                \A d \in DOMAIN fs : e[d] \in Perms(DOMAIN fs[d].files)}]

-----------------------------------------------------------------------------
(* guess_mime_type, encode_image_to_data_url *)

None == "None"

\* pathlib's PurePath.suffix
Suffix(name) ==
    LET dots == {i \in 1..Len(name) : CharAt(name, i) = "."}
    IN  IF dots = {} THEN ""
        ELSE LET i == CHOOSE d \in dots : \A e \in dots : e <= d
             IN  IF 1 < i /\ i < Len(name) THEN SubSeq(name, i, Len(name)) ELSE ""

guess_mime_type(name) ==
    LET suf == lower(Suffix(name))
    IN  IF suf = ".png" THEN "image/png"
        ELSE IF suf \in {".jpg", ".jpeg"} THEN "image/jpeg"
        ELSE IF suf = ".webp" THEN "image/webp"
        ELSE IF suf = ".svg" THEN "image/svg+xml"
        ELSE "application/octet-stream"

\* file is the entry of the directory (readable, b64), name its name
encode_image_to_data_url(file, name) ==
    IF file.readable
    THEN "data:" \o guess_mime_type(name) \o ";base64," \o file.b64
    ELSE None

\* Python truthiness of an Optional[str]
Truthy(v) == v # None /\ v # ""

-----------------------------------------------------------------------------
(* collect_config_images: one configuration directory *)

\* line 98, `if f.is_file()`: the entries of the enumeration that are files
is_file_only(files, enum) == SelectSeq(enum, LAMBDA n : files[n].is_file)

\* line 98: the dict built from the enumeration `enum` of the directory, by
\* lowercased name; a later file of the same lowercased name replaces an earlier
RECURSIVE PresentLoop(_, _, _)
PresentLoop(enum, i, present) ==
    IF i > Len(enum) THEN present
    ELSE PresentLoop(enum, i + 1, Assign(present, lower(enum[i]), enum[i]))

present_of(enum) == PresentLoop(enum, 1, <<>>)

\* the keys of that dict in insertion order (first occurrence)
RECURSIVE present_keys(_, _)
present_keys(enum, i) ==
    IF i > Len(enum) THEN <<>>
    ELSE IF \E j \in 1..(i - 1) : lower(enum[j]) = lower(enum[i])
         THEN present_keys(enum, i + 1)
         ELSE <<lower(enum[i])>> \o present_keys(enum, i + 1)

\* lines 105-106: candidate.lower() for the i-th stem of key k and the j-th extension
CandidateLower ==
    [k \in DOMAIN METRIC_ALIASES |->
        [i \in 1..Len(METRIC_ALIASES[k]) |->
            [j \in 1..Len(ALLOWED_EXTS) |-> lower(METRIC_ALIASES[k][i] \o ALLOWED_EXTS[j])]]]

\* lines 104-110 with ALLOWED_EXTS walked from its last entry to its first
ExtLoopLastExt(files, present, k, i) ==
    LET names == DOMAIN present
        hits == {j \in 1..Len(ALLOWED_EXTS) : CandidateLower[k][i][j] \in names}
    IN  IF hits = {} THEN [hit |-> FALSE]
        ELSE LET j == CHOOSE h \in hits : \A g \in hits : h >= g
                 f == present[CandidateLower[k][i][j]]
             IN  [hit |-> TRUE,
                  data_url |-> encode_image_to_data_url(files[f], f),
                  found_ext |-> ALLOWED_EXTS[j]]

\* lines 104-110 for stem i of key k: the loop stops at the first extension whose
\* candidate name is present, whether or not that file could be encoded
ExtLoop(files, present, k, i) ==
    LET names == DOMAIN present
        hits == {j \in 1..Len(ALLOWED_EXTS) : CandidateLower[k][i][j] \in names}
    IN  IF hits = {} THEN [hit |-> FALSE]
        ELSE LET j == CHOOSE h \in hits : \A g \in hits : h <= g
                 f == present[CandidateLower[k][i][j]]
             IN  [hit |-> TRUE,
                  data_url |-> encode_image_to_data_url(files[f], f),
                  found_ext |-> ALLOWED_EXTS[j]]

\* lines 103-112 with the loops nested the other way round: extensions outside,
\* stems inside
StemLoopExtMajor(files, present, k, i, data_url, found_ext) ==
    LET names == DOMAIN present
        hits == {h \in (i..Len(METRIC_ALIASES[k])) \X (1..Len(ALLOWED_EXTS)) :
                    CandidateLower[k][h[1]][h[2]] \in names}
    IN  IF hits = {} THEN [data_url |-> data_url, found_ext |-> found_ext]
        ELSE LET h == CHOOSE x \in hits : \A y \in hits :
                          x[2] < y[2] \/ (x[2] = y[2] /\ x[1] <= y[1])
                 f == present[CandidateLower[k][h[1]][h[2]]]
             IN  [data_url |-> encode_image_to_data_url(files[f], f),
                  found_ext |-> ALLOWED_EXTS[h[2]]]

\* lines 103-112: the stems of key k from the i-th on, with the current values of
\* data_url and found_ext; the loop stops once data_url is truthy
RECURSIVE StemLoop(_, _, _, _, _, _)
StemLoop(files, present, k, i, data_url, found_ext) ==
    IF i > Len(METRIC_ALIASES[k]) THEN [data_url |-> data_url, found_ext |-> found_ext]
    ELSE LET r == ExtLoop(files, present, k, i)
         IN  IF r.hit
             THEN IF Truthy(r.data_url)
                  THEN [data_url |-> r.data_url, found_ext |-> r.found_ext]
                  ELSE StemLoop(files, present, k, i + 1, r.data_url, r.found_ext)
             ELSE IF Truthy(data_url)
                  THEN [data_url |-> data_url, found_ext |-> found_ext]
                  ELSE StemLoop(files, present, k, i + 1, data_url, found_ext)

canonical_png_key(k) == METRIC_ALIASES[k][1] \o ALLOWED_EXTS[1]

\* lines 113-116 alone: lines 117-118 left out
StoreMetricCanonicalOnly(images, k, found) ==
    Assign(images, canonical_png_key(k), found.data_url)

\* lines 113-118 writing only a metric that resolved
StoreMetricSkipNone(images, k, found) ==
    IF found.data_url = None THEN images
    ELSE LET withPng == Assign(images, canonical_png_key(k), found.data_url)
         IN  IF found.found_ext # None /\ found.found_ext # ALLOWED_EXTS[1]
             THEN Assign(withPng, METRIC_ALIASES[k][1] \o found.found_ext, found.data_url)
             ELSE withPng

\* lines 113-118: what one metric key writes into images
StoreMetric(images, k, found) ==
    LET withPng == Assign(images, canonical_png_key(k), found.data_url)
    IN  IF found.found_ext # None /\ found.found_ext # ALLOWED_EXTS[1]
        THEN Assign(withPng, METRIC_ALIASES[k][1] \o found.found_ext, found.data_url)
        ELSE withPng

\* lines 100-118 with lines 101-102 hoisted out of the loop: data_url and found_ext
\* are not reset from one metric key to the next
RECURSIVE MetricLoopNoReset(_, _, _, _, _)
MetricLoopNoReset(files, present, n, images, prev) ==
    IF n > Len(MetricKeys) THEN images
    ELSE LET found == StemLoop(files, present, MetricKeys[n], 1,
                               prev.data_url, prev.found_ext)
         IN  MetricLoopNoReset(files, present, n + 1,
                               StoreMetric(images, MetricKeys[n], found), found)

MetricLoopLeaky(files, present, n, images) ==
    MetricLoopNoReset(files, present, n, images, [data_url |-> None, found_ext |-> None])

\* lines 100-118: the metric keys from the n-th on, in table order
RECURSIVE MetricLoop(_, _, _, _)
MetricLoop(files, present, n, images) ==
    IF n > Len(MetricKeys) THEN images
    ELSE MetricLoop(files, present, n + 1,
            StoreMetric(images, MetricKeys[n],
                        StemLoop(files, present, MetricKeys[n], 1, None, None)))

\* dict.get(key), None when the key is missing
Get(images, key) == IF key \in DOMAIN images THEN images[key] ELSE None

\* lines 119-123 without the test of the CM_N entry
CmFallbackAlways(images) ==
    LET cm_key == canonical_png_key("CM")
        cmn_key == canonical_png_key("CM_N")
    IN  IF Get(images, cm_key) # None
        THEN Assign(images, cmn_key, Get(images, cm_key))
        ELSE images

\* lines 119-123 left out
CmFallbackNever(images) == images

\* lines 119-123
CmFallback(images) ==
    LET cm_key == canonical_png_key("CM")
        cmn_key == canonical_png_key("CM_N")
    IN  IF Get(images, cmn_key) = None /\ Get(images, cm_key) # None
        THEN Assign(images, cmn_key, Get(images, cm_key))
        ELSE images

\* lines 129-141 with the tests of lines 136 and 138 exchanged
RECURSIVE GalleryLoopPredFirst(_, _, _, _, _)
GalleryLoopPredFirst(files, present, keys, i, g) ==
    IF i > Len(keys) THEN g
    ELSE LET name == keys[i]
             url == encode_image_to_data_url(files[present[name]], present[name])
             low == lower(name)
         IN  IF ~ \E e \in 1..Len(ALLOWED_EXTS) : endswith(name, ALLOWED_EXTS[e])
             THEN GalleryLoopPredFirst(files, present, keys, i + 1, g)
             ELSE IF ~ Truthy(url)
             THEN GalleryLoopPredFirst(files, present, keys, i + 1, g)
             ELSE IF startswith(low, "val_batch") /\ contains(low, "_pred")
             THEN GalleryLoopPredFirst(files, present, keys, i + 1,
                                       [g EXCEPT !.val_preds = Append(@, url)])
             ELSE IF startswith(low, "val_batch") /\ contains(low, "_labels")
             THEN GalleryLoopPredFirst(files, present, keys, i + 1,
                                       [g EXCEPT !.val_labels = Append(@, url)])
             ELSE GalleryLoopPredFirst(files, present, keys, i + 1,
                                       [g EXCEPT !.all_imgs = Append(@, url)])

\* lines 129-141: the items of present from the i-th key on
RECURSIVE GalleryLoop(_, _, _, _, _)
GalleryLoop(files, present, keys, i, g) ==
    IF i > Len(keys) THEN g
    ELSE LET name == keys[i]
             url == encode_image_to_data_url(files[present[name]], present[name])
             low == lower(name)
         IN  IF ~ \E e \in 1..Len(ALLOWED_EXTS) : endswith(name, ALLOWED_EXTS[e])
             THEN GalleryLoop(files, present, keys, i + 1, g)
             ELSE IF ~ Truthy(url)
             THEN GalleryLoop(files, present, keys, i + 1, g)
             ELSE IF startswith(low, "val_batch") /\ contains(low, "_labels")
             THEN GalleryLoop(files, present, keys, i + 1,
                              [g EXCEPT !.val_labels = Append(@, url)])
             ELSE IF startswith(low, "val_batch") /\ contains(low, "_pred")
             THEN GalleryLoop(files, present, keys, i + 1,
                              [g EXCEPT !.val_preds = Append(@, url)])
             ELSE GalleryLoop(files, present, keys, i + 1,
                              [g EXCEPT !.all_imgs = Append(@, url)])

EmptyMap == [x \in {} |-> <<>>]

\* lines 144-149 with the key of line 148 fixed to batch_1
RECURSIVE BatchMapMerged(_, _, _)
BatchMapMerged(items, i, map) ==
    IF i > Len(items) THEN map
    ELSE BatchMapMerged(items, i + 1,
            Assign(map, "batch_1",
                   Append(IF "batch_1" \in DOMAIN map THEN map["batch_1"] ELSE <<>>,
                          items[i])))

\* lines 144-149 keeping only the item met first
BatchMapFirstOnly(items, i, map) ==
    IF items = <<>> THEN map ELSE Assign(map, "batch_1", <<items[1]>>)

\* lines 144-149 and 152-155: the items from the i-th on
RECURSIVE BatchMap(_, _, _)
BatchMap(items, i, map) ==
    IF i > Len(items) THEN map
    ELSE LET key == "batch_" \o ToString(Cardinality(DOMAIN map) + 1)
         IN  BatchMap(items, i + 1,
                      Assign(map, key, Append(IF key \in DOMAIN map THEN map[key] ELSE <<>>,
                                              items[i])))

\* lines 142-156 without the tests of lines 142 and 151
StoreGalleriesAlways(images, g) ==
    Assign(Assign(images, "VAL_LABELS", g.val_labels), "VAL_PRED", g.val_preds)

\* lines 142-156
StoreGalleries(images, g) ==
    LET labels_map == BatchMap(g.val_labels, 1, EmptyMap)
        preds_map == BatchMap(g.val_preds, 1, EmptyMap)
        withLabels == IF g.val_labels # <<>>
                      THEN Assign(images, "VAL_LABELS",
                                  IF DOMAIN labels_map # {} THEN labels_map ELSE g.val_labels)
                      ELSE images
    IN  IF g.val_preds # <<>>
        THEN Assign(withLabels, "VAL_PRED",
                    IF DOMAIN preds_map # {} THEN preds_map ELSE g.val_preds)
        ELSE withLabels

EmptyImages == [x \in {} |-> None]

\* lines 96-118 for the directory with entries `files`, enumerated as `enum`
MetricImages(files, enum) ==
    MetricLoop(files, present_of(is_file_only(files, enum)), 1, EmptyImages)

\* lines 96-157: the ConfigImages of one configuration directory
ConfigRecord(name, files, enum) ==
    LET present == present_of(is_file_only(files, enum))
        images == CmFallback(MetricImages(files, enum))
        g == GalleryLoop(files, present, present_keys(is_file_only(files, enum), 1), 1,
                         [val_labels |-> <<>>, val_preds |-> <<>>, all_imgs |-> <<>>])
    IN  [config_name |-> name, images |-> StoreGalleries(images, g)]

-----------------------------------------------------------------------------
(* collect_config_images: the run directory *)

\* lines 88-91 with the suffix compared on the lowercased name
RECURSIVE ConfigDirsAnyCase(_, _)
ConfigDirsAnyCase(root, top) ==
    IF top = <<>> THEN <<>>
    ELSE IF root[Head(top)].is_dir /\ endswith(lower(Head(top)), "_config")
         THEN <<Head(top)>> \o ConfigDirsAnyCase(root, Tail(top))
         ELSE ConfigDirsAnyCase(root, Tail(top))

\* lines 88-91 over the enumeration `top` of the run directory `root` (child
\* name -> child)
RECURSIVE config_dirs(_, _)
config_dirs(root, top) ==
    IF top = <<>> THEN <<>>
    ELSE IF root[Head(top)].is_dir /\ endswith(Head(top), "_config")
         THEN <<Head(top)>> \o config_dirs(root, Tail(top))
         ELSE config_dirs(root, Tail(top))

\* list.sort(key=lambda p: p.name.lower()): stable, by insertion
RECURSIVE InsertByLower(_, _)
InsertByLower(sorted, x) ==
    IF sorted = <<>> THEN <<x>>
    ELSE IF StrLess(lower(x), lower(Head(sorted)))
         THEN <<x>> \o sorted
         ELSE <<Head(sorted)>> \o InsertByLower(Tail(sorted), x)

RECURSIVE SortByLower(_)
SortByLower(names) ==
    IF names = <<>> THEN <<>>
    ELSE InsertByLower(SortByLower(SubSeq(names, 1, Len(names) - 1)), names[Len(names)])

\* lines 94-158 when a failed read ends the scan: the records built before the
\* first directory that holds an unreadable file
RECURSIVE CollectLoopAbort(_, _, _)
CollectLoopAbort(root, dirs, e) ==
    IF dirs = <<>> THEN <<>>
    ELSE IF \E f \in DOMAIN root[Head(dirs)].files : ~ root[Head(dirs)].files[f].readable
         THEN <<>>
         ELSE <<ConfigRecord(Head(dirs), root[Head(dirs)].files, e.files[Head(dirs)])>>
              \o CollectLoopAbort(root, Tail(dirs), e)

\* lines 94-158 with the images dict of line 96 created once, before the loop:
\* a key a directory does not write keeps the value an earlier directory wrote
RECURSIVE CollectLoopShared(_, _, _)
CollectLoopShared(root, dirs, e) ==
    IF dirs = <<>> THEN <<>>
    ELSE LET first == ConfigRecord(Head(dirs), root[Head(dirs)].files, e.files[Head(dirs)])
             rest == CollectLoopShared(root, Tail(dirs), e)
         IN  <<first>> \o [i \in 1..Len(rest) |->
                              [rest[i] EXCEPT !.images = @ @@ first.images]]

\* lines 94-158 under the enumeration e of the run directory `root` and its children
RECURSIVE CollectLoop(_, _, _)
CollectLoop(root, dirs, e) ==
    IF dirs = <<>> THEN <<>>
    ELSE <<ConfigRecord(Head(dirs), root[Head(dirs)].files, e.files[Head(dirs)])>>
         \o CollectLoop(root, Tail(dirs), e)

\* root: the run directory (child name -> child); e: the order in which iterdir()
\* yields its children (e.top) and the entries of each child (e.files)
collect_config_images(root, e) ==
    CollectLoop(root, SortByLower(config_dirs(root, e.top)), e)

-----------------------------------------------------------------------------
(* discover_runs *)

\* root.name (line 173)
RootName == "runs"

\* the path of the root; the path of a child of the root is the child's name
RootPath == "."

\* the directory at `path` as collect_config_images sees a run directory: child
\* name -> child.  What lies inside a directory two levels below the root is not
\* part of the model: such a directory is empty.
DirAt(path) ==
    IF path = RootPath THEN fs
    ELSE [n \in DOMAIN fs[path].files |->
            [is_dir |-> ~ fs[path].files[n].is_file, files |-> NoFiles]]

\* lines 164-168 for a directory that can be listed
is_run_dir(path) ==
    \E c \in DOMAIN DirAt(path) : DirAt(path)[c].is_dir /\ endswith(c, "_config")

\* lines 175-177 over the enumeration `top` of the root
RECURSIVE ChildCandidates(_)
ChildCandidates(top) ==
    IF top = <<>> THEN <<>>
    ELSE (IF fs[Head(top)].is_dir /\ is_run_dir(Head(top))
          THEN <<[run_name |-> Head(top), run_path |-> Head(top)]>>
          ELSE <<>>) \o ChildCandidates(Tail(top))

\* lines 171-173 alone: the children of the root are not scanned
CandidatesRootOnly(top) ==
    IF is_run_dir(RootPath) THEN <<[run_name |-> RootName, run_path |-> RootPath]>>
    ELSE <<>>

\* lines 171-177
candidates(top) ==
    (IF is_run_dir(RootPath) THEN <<[run_name |-> RootName, run_path |-> RootPath]>>
     ELSE <<>>) \o ChildCandidates(top)

\* the order in which collect_config_images(run_path) finds the directory at
\* `path` enumerated: rootOrder for the root itself, e.files[path] for a child
EnumAt(path, e, rootOrder) ==
    IF path = RootPath THEN [top |-> rootOrder, files |-> e.files]
    ELSE [top |-> e.files[path], files |-> [n \in DOMAIN fs[path].files |-> <<>>]]

\* lines 180-187: the candidates from the i-th on
RECURSIVE RunsLoop(_, _, _, _, _, _)
RunsLoop(cands, i, seen, acc, e, rootOrder) ==
    IF i > Len(cands) THEN acc
    ELSE IF cands[i].run_path \in seen
         THEN RunsLoop(cands, i + 1, seen, acc, e, rootOrder)
         ELSE LET run_path == cands[i].run_path
                  configs == collect_config_images(DirAt(run_path),
                                                   EnumAt(run_path, e, rootOrder))
              IN  RunsLoop(cands, i + 1, seen \cup {run_path},
                           IF configs # <<>>
                           THEN Append(acc, [run_name |-> cands[i].run_name,
                                             run_path |-> run_path,
                                             configs |-> configs])
                           ELSE acc,
                           e, rootOrder)

\* line 189 left out
SortRunsNone(rs) == rs

RECURSIVE InsertRun(_, _)
InsertRun(sorted, r) ==
    IF sorted = <<>> THEN <<r>>
    ELSE IF StrLess(lower(r.run_name), lower(Head(sorted).run_name))
         THEN <<r>> \o sorted
         ELSE <<Head(sorted)>> \o InsertRun(Tail(sorted), r)

\* line 189, runs.sort(key=lambda r: r.run_name.lower()): stable, by insertion
RECURSIVE SortRuns(_)
SortRuns(rs) ==
    IF rs = <<>> THEN <<>>
    ELSE InsertRun(SortRuns(SubSeq(rs, 1, Len(rs) - 1)), rs[Len(rs)])

\* e.top: the order of the root's children at line 175; rootOrder: their order
\* at line 89 when the root itself is scanned as a run
discover_runs(e, rootOrder) ==
    SortRuns(RunsLoop(candidates(e.top), 1, {}, <<>>, e, rootOrder))

-----------------------------------------------------------------------------
(* dirPicker change handler, lines 660-728 *)

\* the File objects of the selected folder: <<config dir, file name>>, standing
\* for webkitRelativePath "<run>/<config dir>/<file name>"
SelectedFiles ==
    {f \in (DOMAIN fs) \X FileNameSet :
        /\ fs[f[1]].is_dir
        /\ f[2] \in DOMAIN fs[f[1]].files
        /\ fs[f[1]].files[f[2]].is_file}

\* lines 315-319 with the canonical name taken from the last base stem
AliasPayloadLastStem ==
    [alias |-> METRIC_ALIASES,
     exts |-> ALLOWED_EXTS,
     canonical |-> [k \in DOMAIN BASE_METRIC_STEMS |->
                        BASE_METRIC_STEMS[k][Len(BASE_METRIC_STEMS[k])] \o ALLOWED_EXTS[1]]]

\* lines 313-320: the payload the loader parses
alias_payload ==
    [alias |-> METRIC_ALIASES,
     exts |-> ALLOWED_EXTS,
     canonical |-> [k \in DOMAIN BASE_METRIC_STEMS |->
                        BASE_METRIC_STEMS[k][1] \o ALLOWED_EXTS[1]]]

\* URL.createObjectURL(f): a URL of the file object itself
createObjectURL(d, n) == "blob:" \o d \o "/" \o n

\* line 701: stem.toLowerCase() for the i-th stem of key k
AliasLower ==
    [k \in DOMAIN alias_payload.alias |->
        [i \in 1..Len(alias_payload.alias[k]) |-> lower(alias_payload.alias[k][i])]]

\* lines 698-704: the first key, in table order, one of whose stems base starts with
RECURSIVE MatchedKey(_, _)
MatchedKey(base, n) ==
    IF n > Len(MetricKeys) THEN None
    ELSE IF \E i \in 1..Len(AliasLower[MetricKeys[n]]) :
                startswith(base, AliasLower[MetricKeys[n]][i])
         THEN MetricKeys[n]
         ELSE MatchedKey(base, n + 1)

\* JavaScript truthiness of m[key]
JsTruthy(m, key) == key \in DOMAIN m /\ m[key] # ""

\* lines 705-721: the entry m of one configuration after file <<d, n>>
LoaderStore(m, d, n) ==
    LET base == lower(n)
        matchedKey == MatchedKey(base, 1)
        url == createObjectURL(d, n)
        push(key) == Assign(m, key, Append(IF key \in DOMAIN m THEN m[key] ELSE <<>>, url))
    IN  IF matchedKey # None
        THEN IF ~ JsTruthy(m, alias_payload.canonical[matchedKey])
             THEN Assign(m, alias_payload.canonical[matchedKey], url)
             ELSE m
        ELSE IF startswith(base, "val_batch") /\ contains(base, "_labels")
             THEN push("VAL_LABELS")
        ELSE IF startswith(base, "val_batch") /\ contains(base, "_pred")
             THEN push("VAL_PRED")
        ELSE push("ALL_IMAGES")

EmptyByConfig == [x \in {} |-> EmptyImages]

\* lines 685-723: the files from the i-th on
RECURSIVE LoaderLoop(_, _, _)
LoaderLoop(files, i, map) ==
    IF i > Len(files) THEN map
    ELSE LET cfg == files[i][1]
             base == lower(files[i][2])
         IN  IF ~ endswith(cfg, "_config")
             THEN LoaderLoop(files, i + 1, map)
             ELSE IF ~ \E e \in 1..Len(alias_payload.exts) : endswith(base, alias_payload.exts[e])
             THEN LoaderLoop(files, i + 1, map)
             ELSE LoaderLoop(files, i + 1,
                     Assign(map, cfg,
                            LoaderStore(IF cfg \in DOMAIN map THEN map[cfg] ELSE EmptyImages,
                                        cfg, files[i][2])))

\* lines 725-727
LoaderFallback(map) ==
    [cfg \in DOMAIN map |->
        LET m == map[cfg]
        IN  IF ~ JsTruthy(m, alias_payload.canonical["CM_N"])
               /\ JsTruthy(m, alias_payload.canonical["CM"])
            THEN Assign(m, alias_payload.canonical["CM_N"], m[alias_payload.canonical["CM"]])
            ELSE m]

-----------------------------------------------------------------------------
(* generate_html_multi: the document, lines 193-1226 *)

\* f"run-{idx}", `run-${runIdx}`
RunId(n) == "run-" \o ToString(n)

\* an element that follows #run-tabs.  uid tells elements apart: 0 for what the
\* server wrote, the number of the creating call for what the script created
Element(tag, id, uid, label, active, cards) ==
    [tag |-> tag, id |-> id, uid |-> uid, label |-> label, active |-> active,
     cards |-> cards]

\* line 434
NoRunsMsg(uid) == Element("div", "noRunsMsg", uid, "", FALSE, <<>>)

\* one card of a metric panel: configuration, metric tab, whether it carries a
\* compare checkbox, the checkbox's data-cat, the image sources (none: Missing)
Card(config, metric, checkbox, cat, srcs) ==
    [config |-> config, metric |-> metric, checkbox |-> checkbox, cat |-> cat,
     srcs |-> srcs]

\* lines 328-337
metric_specs ==
    <<[tab_id |-> "tab-pr", label |-> "Precision-Recall",
       fname |-> METRIC_ALIASES["PR"][1] \o ALLOWED_EXTS[1]],
      [tab_id |-> "tab-p", label |-> "Precision vs Confidence",
       fname |-> METRIC_ALIASES["P"][1] \o ALLOWED_EXTS[1]],
      [tab_id |-> "tab-r", label |-> "Recall vs Confidence",
       fname |-> METRIC_ALIASES["R"][1] \o ALLOWED_EXTS[1]],
      [tab_id |-> "tab-f1", label |-> "F1 vs Confidence",
       fname |-> METRIC_ALIASES["F1"][1] \o ALLOWED_EXTS[1]],
      [tab_id |-> "tab-cm", label |-> "Confusion Matrix",
       fname |-> METRIC_ALIASES["CM"][1] \o ALLOWED_EXTS[1]],
      [tab_id |-> "tab-cm-norm", label |-> "Confusion Matrix (Normalized)",
       fname |-> METRIC_ALIASES["CM_N"][1] \o ALLOWED_EXTS[1]],
      [tab_id |-> "tab-val-labels", label |-> "Validation Batches (Labels)",
       fname |-> "VAL_LABELS"],
      [tab_id |-> "tab-val-pred", label |-> "Validation Batches (Pred)",
       fname |-> "VAL_PRED"]>>

\* sorted(...) of a set of strings, by code point
RECURSIVE SortedStrings(_)
SortedStrings(S) ==
    IF S = {} THEN <<>>
    ELSE LET least == CHOOSE x \in S : \A y \in S \ {x} : StrLess(x, y)
         IN  <<least>> \o SortedStrings(S \ {least})

\* lines 408-416: the first alternate extension whose key holds a reference
RECURSIVE AltLookup(_, _, _)
AltLookup(images, fname, e) ==
    IF e > Len(ALLOWED_EXTS) THEN None
    ELSE LET alt == SubSeq(fname, 1, Len(fname) - 4) \o ALLOWED_EXTS[e]
         IN  IF alt = fname THEN AltLookup(images, fname, e + 1)
             ELSE IF Truthy(Get(images, alt)) THEN Get(images, alt)
             ELSE AltLookup(images, fname, e + 1)

\* lines 359-427: the card(s) of one configuration in one metric panel.  An
\* entry under a gallery tag is the dict of lines 146/154 (the list branch of
\* lines 385-404 needs a list there, which lines 142-156 never store)
RenderCard(cfg, spec) ==
    IF spec.fname \in DOMAIN cfg.images /\ spec.fname \in {"VAL_LABELS", "VAL_PRED"}
    THEN LET data_entry == cfg.images[spec.fname]
             batch_keys == SortedStrings(DOMAIN data_entry)
         IN  [bi \in 1..Len(batch_keys) |->
                 Card(cfg.config_name, spec.tab_id, TRUE, batch_keys[bi],
                      data_entry[batch_keys[bi]])]
    ELSE LET data_entry == Get(cfg.images, spec.fname)
             data_url == IF ~ Truthy(data_entry) /\ endswith(spec.fname, ".png")
                         THEN AltLookup(cfg.images, spec.fname, 1)
                         ELSE data_entry
         IN  IF Truthy(data_url)
             THEN <<Card(cfg.config_name, spec.tab_id, TRUE, "single", <<data_url>>)>>
             ELSE <<Card(cfg.config_name, spec.tab_id, FALSE, None, <<>>)>>

\* lines 354-429: the cards of the metric panels from the s-th on, from the
\* c-th configuration on
RECURSIVE RenderCards(_, _, _)
RenderCards(configs, s, c) ==
    IF s > Len(metric_specs) THEN <<>>
    ELSE IF c > Len(configs) THEN RenderCards(configs, s + 1, 1)
    ELSE RenderCard(configs[c], metric_specs[s]) \o RenderCards(configs, s, c + 1)

\* lines 326-431: the section render_run_panel appends for run number idx
render_run_panel(idx, run) ==
    Element("section", RunId(idx), 0, run.run_name, idx = 0,
            RenderCards(run.configs, 1, 1))

\* lines 193-1226: the document for the list `rs` of runs.  Nothing calls
\* render_run_panel and no statement reads `rs`: the tab bar of line 323 is
\* empty and line 434 follows it whatever the list holds
generate_html_multi(rs, title) ==
    [title |-> title,
     aliasData |-> alias_payload,
     run_tabs |-> <<>>,
     body |-> <<NoRunsMsg(0)>>]

\* lines 1242-1246 with a report written only when a run was found
WriteReportUnlessEmpty(rs) ==
    IF rs = <<>> THEN <<>>
    ELSE <<[path |-> RootPath \o "/" \o "YOLOmetrics_report.html",
            html |-> generate_html_multi(rs, "YOLOmetrics Report")]>>

\* lines 1241-1245: the file main writes, with the default --output and --title
write_report(rs) ==
    <<[path |-> RootPath \o "/" \o "YOLOmetrics_report.html",
       html |-> generate_html_multi(rs, "YOLOmetrics Report")]>>

-----------------------------------------------------------------------------
(* dirPicker change handler, lines 730-880: the DOM of the open report *)

\* lines 762-772: <<tab id, label, key of the configuration's entry>>
LoaderMetrics ==
    <<<<"tab-pr", "Precision-Recall", alias_payload.canonical["PR"]>>,
      <<"tab-p", "Precision vs Confidence", alias_payload.canonical["P"]>>,
      <<"tab-r", "Recall vs Confidence", alias_payload.canonical["R"]>>,
      <<"tab-f1", "F1 vs Confidence", alias_payload.canonical["F1"]>>,
      <<"tab-cm", "Confusion Matrix", alias_payload.canonical["CM"]>>,
      <<"tab-cm-norm", "Confusion Matrix (Normalized)", alias_payload.canonical["CM_N"]>>,
      <<"tab-val-labels", "Validation Batches (Labels)", "VAL_LABELS">>,
      <<"tab-val-pred", "Validation Batches (Pred)", "VAL_PRED">>,
      <<"tab-all-imgs", "All Images", "ALL_IMAGES">>>>

\* a.localeCompare(b) < 0 for the names used here: letters compare without
\* case first, and a lowercase letter precedes its uppercase
LocaleLess(a, b) ==
    \/ StrLess(lower(a), lower(b))
    \/ lower(a) = lower(b) /\ StrLess(b, a)

\* line 793: Array.from(byConfig.keys()).sort(localeCompare)
RECURSIVE SortedConfigs(_)
SortedConfigs(S) ==
    IF S = {} THEN <<>>
    ELSE LET least == CHOOSE x \in S : \A y \in S \ {x} : LocaleLess(x, y)
         IN  <<least>> \o SortedConfigs(S \ {least})

\* lines 794-839: the card of configuration cfgName in the panel of metric mt.
\* The checkbox of lines 802-805 is always there and has no data-cat
LoaderCard(map, cfgName, mt) ==
    LET present == mt[3] \in DOMAIN map[cfgName]
        entry == IF present THEN map[cfgName][mt[3]] ELSE None
    IN  IF present /\ mt[3] \in {"VAL_LABELS", "VAL_PRED", "ALL_IMAGES"}
        THEN Card(cfgName, mt[1], TRUE, None, entry)
        ELSE IF present /\ entry # None
        THEN Card(cfgName, mt[1], TRUE, None, <<entry>>)
        ELSE Card(cfgName, mt[1], TRUE, None, <<>>)

\* lines 774-844: the cards of the metric panels from the s-th on
RECURSIVE LoaderCards(_, _)
LoaderCards(map, s) ==
    IF s > Len(LoaderMetrics) THEN <<>>
    ELSE LET cfgs == SortedConfigs(DOMAIN map)
         IN  [c \in 1..Len(cfgs) |-> LoaderCard(map, cfgs[c], LoaderMetrics[s])]
             \o LoaderCards(map, s + 1)

\* a button of #run-tabs: the run's tab (role "tab") or its remove button
TabButton(kind, uid, controls, label, selected) ==
    [kind |-> kind, uid |-> uid, controls |-> controls, label |-> label,
     selected |-> selected]

RunPanels(body) == SelectSeq(body, LAMBDA el : el.tag = "section")

\* line 732: the elements matching [id^="run-"][role="tabpanel"], which are the
\* run panels and the metric panels inside them (lines 751-753, 785-787)
runIdx(d) == Len(RunPanels(d.body)) * (1 + Len(LoaderMetrics))

\* element.remove()
Detach(body, uid) == SelectSeq(body, LAMBDA el : el.uid # uid)

\* lines 851-857, as left by the listener bound last: every button of the bar
\* is selected iff it is btn, every run panel is active iff btn controls its id
activateButton(d, btn) ==
    [d EXCEPT
        !.tabs = [i \in 1..Len(d.tabs) |->
                    [d.tabs[i] EXCEPT !.selected = (d.tabs[i].uid = btn.uid
                                                    /\ d.tabs[i].kind = btn.kind)]],
        !.body = [i \in 1..Len(d.body) |->
                    IF d.body[i].tag = "section"
                    THEN [d.body[i] EXCEPT !.active = (d.body[i].id = btn.controls)]
                    ELSE d.body[i]]]

\* lines 730-864 with earlier panels dropped: the new run replaces the others
AddRunReplacing(d, runName, map) ==
    IF DOMAIN map = {} THEN [d EXCEPT !.loads = @ + 1]
    ELSE LET uid == d.created + 1
             id == RunId(runIdx(d))
             panel == Element("section", id, uid, runName, TRUE, LoaderCards(map, 1))
         IN  [tabs |-> <<TabButton("tab", uid, id, runName, TRUE),
                         TabButton("close", uid, id, "x", FALSE)>>,
              body |-> <<panel>>,
              created |-> uid,
              loads |-> d.loads + 1]

\* lines 728-864: the document after a load that resolved `map`.  noRunsMsg is
\* the element line 657 found when the script started, the one with uid 0
AddRun(d, runName, map) ==
    IF DOMAIN map = {} THEN [d EXCEPT !.loads = @ + 1]
    ELSE LET uid == d.created + 1
             id == RunId(runIdx(d))
             panel == Element("section", id, uid, runName, FALSE, LoaderCards(map, 1))
             tabs == d.tabs \o <<TabButton("tab", uid, id, runName, FALSE),
                                 TabButton("close", uid, id, "x", FALSE)>>
             appended == [tabs |-> tabs,
                          body |-> <<panel>> \o Detach(d.body, 0),
                          created |-> uid,
                          loads |-> d.loads + 1]
         IN  activateButton(appended, tabs[1])

\* document.getElementById(id): the uid of the first element of that id in
\* document order, -1 when there is none
RECURSIVE getElementById(_, _, _)
getElementById(body, id, i) ==
    IF i > Len(body) THEN -1
    ELSE IF body[i].id = id THEN body[i].uid
    ELSE getElementById(body, id, i + 1)

\* lines 859 and 867-879: a click on the remove button runClose
RunClose(d, runClose) ==
    LET clicked == activateButton(d, runClose)
        panel == getElementById(clicked.body, runClose.controls, 1)
        removed == [clicked EXCEPT
                       !.tabs = SelectSeq(clicked.tabs, LAMBDA b : b.uid # runClose.uid),
                       !.body = IF panel = -1 THEN clicked.body
                                ELSE Detach(clicked.body, panel)]
    IN  IF removed.tabs # <<>>
        THEN activateButton(removed, removed.tabs[1])
        ELSE [removed EXCEPT !.body = <<NoRunsMsg(d.created + 1)>> \o removed.body,
                             !.created = d.created + 1]

\* the document as the browser parsed it, before any load
InitialDom ==
    LET doc == generate_html_multi(<<>>, "YOLOmetrics Report")
    IN  [tabs |-> doc.run_tabs, body |-> doc.body, created |-> 0, loads |-> 0]

-----------------------------------------------------------------------------
(* The compare UI, lines 568-651 *)

\* the cmp-toggle checkboxes of the document: the panel, metric tab and
\* configuration of the card, with the data-* attributes of lines 804
Checkboxes(d) ==
    UNION {{[el |-> <<d.body[i].uid, d.body[i].cards[c].metric, d.body[i].cards[c].config>>,
             run |-> d.body[i].label,
             config |-> d.body[i].cards[c].config,
             metric |-> d.body[i].cards[c].metric,
             cat |-> d.body[i].cards[c].cat]
               : c \in {n \in 1..Len(d.body[i].cards) : d.body[i].cards[n].checkbox}}
           : i \in 1..Len(d.body)}

\* lines 578-579, 588: nothing selected, the button disabled, the modal hidden
InitialCmp ==
    [selected |-> <<>>, checked |-> {}, disabled |-> TRUE, count |-> 0,
     show |-> FALSE, rows |-> <<>>, alert |-> ""]

\* lines 589-592 with the button enabled as soon as something is selected
UpdateCmpBtnNonEmpty(c) ==
    [c EXCEPT !.count = Len(c.selected), !.disabled = (Len(c.selected) = 0)]

\* lines 589-592
updateCmpBtn(c) ==
    [c EXCEPT !.count = Len(c.selected), !.disabled = (Len(c.selected) # 2)]

\* line 596
Meta(t) == [run |-> t.run, config |-> t.config, metric |-> t.metric, cat |-> t.cat]

\* line 614: the first index whose run, config and metric are meta's, 0 if none
RECURSIVE findIndex(_, _, _)
findIndex(selected, meta, i) ==
    IF i > Len(selected) THEN 0
    ELSE IF /\ selected[i].run = meta.run
            /\ selected[i].config = meta.config
            /\ selected[i].metric = meta.metric
         THEN i
         ELSE findIndex(selected, meta, i + 1)

\* lines 593-618: the change event of checkbox t, which the browser has just
\* ticked (t not in c.checked before) or cleared
CmpToggle(c, t) ==
    IF t.el \notin c.checked
    THEN IF Len(c.selected) >= 2 THEN c
         ELSE IF Len(c.selected) = 1 /\ c.selected[1].metric # t.metric
         THEN [c EXCEPT !.alert = "metric"]
         ELSE IF Len(c.selected) = 1 /\ c.selected[1].run # t.run
         THEN [c EXCEPT !.alert = "run"]
         ELSE IF Len(c.selected) = 1 /\ c.selected[1].cat # t.cat
         THEN [c EXCEPT !.alert = "cat"]
         ELSE updateCmpBtn([c EXCEPT !.selected = Append(@, Meta(t)),
                                     !.checked = @ \cup {t.el}])
    ELSE LET idx == findIndex(c.selected, Meta(t), 1)
         IN  updateCmpBtn([c EXCEPT
                 !.selected = IF idx > 0
                              THEN SubSeq(@, 1, idx - 1) \o SubSeq(@, idx + 1, Len(@))
                              ELSE @,
                 !.checked = @ \ {t.el}])

\* lines 620-631: the image sources of meta's card
findPanelImgs(d, meta) ==
    LET labelled == SelectSeq(d.body, LAMBDA el : el.tag = "section" /\ el.label = meta.run)
    IN  IF labelled = <<>> THEN <<>>
        ELSE LET first == SelectSeq(d.body, LAMBDA el : el.id = labelled[1].id)[1]
                 match == SelectSeq(first.cards, LAMBDA cd : cd.metric = meta.metric
                                                             /\ cd.config = meta.config)
             IN  IF match = <<>> THEN <<>> ELSE match[1].srcs

\* lines 633-651: a click on the Compare button
CmpBtn(c, d) ==
    IF Len(c.selected) # 2 THEN c
    ELSE [c EXCEPT !.show = TRUE,
                   !.rows = <<findPanelImgs(d, c.selected[1]),
                              findPanelImgs(d, c.selected[2])>>]

-----------------------------------------------------------------------------
(* The state machine *)

InitScan ==
    /\ fs = [d \in {} |-> [is_dir |-> TRUE, files |-> NoFiles]]
    /\ pc = "setup"
    /\ listing = [top |-> <<>>, files |-> <<>>]
    /\ collected = <<>>
    /\ byConfig = EmptyByConfig
    /\ runs = <<>>

\* a configuration directory appears in the run directory
MkDir(d) ==
    /\ pc = "setup"
    /\ d \notin DOMAIN fs
    /\ fs' = Assign(fs, d, [is_dir |-> TRUE, files |-> NoFiles])
    /\ UNCHANGED <<pc, listing, collected, byConfig, runs>>

\* a file appears in directory d, readable or not
CreateFile(d, n, readable) ==
    /\ pc = "setup"
    /\ d \in DOMAIN fs
    /\ fs[d].is_dir
    /\ n \notin DOMAIN fs[d].files
    /\ FileCount < MaxFiles
    /\ fs' = [fs EXCEPT ![d].files =
                Assign(@, n, [is_file |-> TRUE, readable |-> readable, b64 |-> BytesB64(n)])]
    /\ UNCHANGED <<pc, listing, collected, byConfig, runs>>

\* collect_config_images(run directory)
CollectConfigImages ==
    /\ pc = "setup"
    /\ \E e \in Enumerations :
          /\ listing' = e
          /\ collected' = collect_config_images(fs, e)
    /\ pc' = "scanned"
    /\ UNCHANGED <<fs, byConfig, runs>>

\* the user picks the same run directory in the generated report
DirPickerChange ==
    /\ pc = "scanned"
    /\ SelectedFiles # {}
    /\ \E files \in Perms(SelectedFiles) :
          /\ byConfig' = LoaderFallback(LoaderLoop(files, 1, EmptyByConfig))
          /\ dom' = AddRun(dom, RootName, byConfig')
    /\ pc' = "loaded"
    /\ UNCHANGED <<fs, listing, collected, runs>>

\* a regular file appears among the children of the directory
MkFileChild(d) ==
    /\ pc = "setup"
    /\ d \notin DOMAIN fs
    /\ fs' = Assign(fs, d, [is_dir |-> FALSE, files |-> NoFiles])
    /\ UNCHANGED <<pc, listing, collected, byConfig, runs>>

\* a directory called n appears inside the child directory d
MkSubdir(d, n) ==
    /\ pc = "setup"
    /\ d \in DOMAIN fs
    /\ fs[d].is_dir
    /\ n \notin DOMAIN fs[d].files
    /\ fs' = [fs EXCEPT ![d].files =
                Assign(@, n, [is_file |-> FALSE, readable |-> TRUE, b64 |-> ""])]
    /\ UNCHANGED <<pc, listing, collected, byConfig, runs>>

\* discover_runs(the directory)
DiscoverRuns ==
    /\ pc = "setup"
    /\ \E e \in Enumerations, rootOrder \in Perms(DOMAIN fs) :
          /\ listing' = e
          /\ runs' = discover_runs(e, rootOrder)
    /\ pc' = "discovered"
    /\ UNCHANGED <<fs, collected, byConfig>>

\* main, lines 1237-1246, run on the directory
Main ==
    /\ pc = "setup"
    /\ \E e \in Enumerations, rootOrder \in Perms(DOMAIN fs) :
          /\ listing' = e
          /\ runs' = discover_runs(e, rootOrder)
    /\ report' = write_report(runs')
    /\ pc' = "written"
    /\ UNCHANGED <<fs, collected, byConfig>>

InitUi ==
    /\ report = <<>>
    /\ dom = InitialDom
    /\ cmp = InitialCmp

Init == InitScan /\ InitUi /\ stems = <<>> /\ variants = <<>> /\ xpc = "idle"

Next ==
    \/ (\E d \in ChildNames : MkDir(d)) /\ UNCHANGED <<expVars, uiVars>>
    \/ (\E d \in ChildNames, n \in FileNameSet, r \in BOOLEAN : CreateFile(d, n, r))
          /\ UNCHANGED <<expVars, uiVars>>
    \/ CollectConfigImages /\ UNCHANGED <<expVars, uiVars>>
    \/ DirPickerChange /\ UNCHANGED <<expVars, report, cmp>>

Spec == Init /\ [][Next]_vars

\* expand_with_box called on every list of base stems within the bounds
NextExpand == ExpandWithBox /\ UNCHANGED <<scanVars, uiVars>>

InitExpand == ExpandArgs /\ InitScan /\ InitUi

SpecExpand == InitExpand /\ [][NextExpand]_vars

\* most children and grandchildren of the directory in the directory-level model
MaxNodes == 4

\* directories, and a regular file, that can be children of the directory
TreeDirNames == {"a_config", "A_config", "b_CONFIG", "run1", "Run2"}
TreeFileNames == {"f_config"}
\* directories, and a regular file, that can lie inside a child directory
SubdirNames == {"n_config", "N_config"}
NestedFileNames == {"x_config"}

NodeCount == Cardinality(DOMAIN fs) + FileCount

\* the directory level: which children give records, which directories are runs
NextTree ==
    \/ NodeCount < MaxNodes /\ (\E d \in TreeDirNames : MkDir(d)) /\ UNCHANGED <<expVars, uiVars>>
    \/ NodeCount < MaxNodes /\ (\E d \in TreeFileNames : MkFileChild(d))
          /\ UNCHANGED <<expVars, uiVars>>
    \/ NodeCount < MaxNodes /\ (\E d \in TreeDirNames, n \in SubdirNames : MkSubdir(d, n))
          /\ UNCHANGED <<expVars, uiVars>>
    \/ NodeCount < MaxNodes
          /\ (\E d \in TreeDirNames, n \in NestedFileNames : CreateFile(d, n, TRUE))
          /\ UNCHANGED <<expVars, uiVars>>
    \/ CollectConfigImages /\ UNCHANGED <<expVars, uiVars>>
    \/ DiscoverRuns /\ UNCHANGED <<expVars, uiVars>>
    \/ Main /\ UNCHANGED <<expVars, dom, cmp>>

SpecTree == Init /\ [][NextTree]_vars

\* most folder loads in one session of the open report
MaxLoads == 3

\* folders the user can pick: the run name (first path segment) and the files
\* as <<second path segment, file name>>
FolderSelections ==
    {[run |-> "runA", files |-> <<<<"a_config", "PR_curve.png">>,
                                   <<"a_config", "val_batch0_labels.jpg">>>>],
     [run |-> "runA", files |-> <<<<"b_config", "F1_curve.png">>>>],
     [run |-> "runB", files |-> <<<<"a_config", "P_curve.png">>,
                                   <<"B_config", "confusion_matrix.png">>>>],
     [run |-> "misc", files |-> <<<<"notes", "PR_curve.png">>>>]}

\* lines 660-864: the user picks a folder in the open report
LoadFolder ==
    /\ dom.loads < MaxLoads
    /\ \E sel \in FolderSelections :
          /\ byConfig' = LoaderFallback(LoaderLoop(sel.files, 1, EmptyByConfig))
          /\ dom' = AddRun(dom, sel.run, byConfig')
    /\ UNCHANGED <<fs, pc, listing, collected, runs, report, cmp>>

\* lines 859, 867-879: the user clicks a run's remove button; the checkboxes
\* of the panel that leaves the document leave with it
RunCloseClick ==
    /\ \E i \in 1..Len(dom.tabs) :
          /\ dom.tabs[i].kind = "close"
          /\ dom' = RunClose(dom, dom.tabs[i])
    /\ cmp' = [cmp EXCEPT !.checked = {el \in @ : \E t \in Checkboxes(dom') : t.el = el}]
    /\ UNCHANGED <<fs, pc, listing, collected, byConfig, runs, report>>

\* line 859: the user clicks a run's tab
RunTabClick ==
    /\ \E i \in 1..Len(dom.tabs) :
          /\ dom.tabs[i].kind = "tab"
          /\ dom' = activateButton(dom, dom.tabs[i])
    /\ UNCHANGED <<fs, pc, listing, collected, byConfig, runs, report, cmp>>

\* lines 593-618: the user ticks or clears a compare checkbox
CmpToggleChange ==
    /\ \E t \in Checkboxes(dom) : cmp' = CmpToggle(cmp, t)
    /\ UNCHANGED <<fs, pc, listing, collected, byConfig, runs, report, dom>>

\* lines 633-651: the user clicks Compare (a disabled button gets no click)
CmpBtnClick ==
    /\ ~ cmp.disabled
    /\ cmp' = CmpBtn(cmp, dom)
    /\ UNCHANGED <<fs, pc, listing, collected, byConfig, runs, report, dom>>

\* line 575: the user closes the compare modal
CmpCloseClick ==
    /\ cmp.show
    /\ cmp' = [cmp EXCEPT !.show = FALSE]
    /\ UNCHANGED <<fs, pc, listing, collected, byConfig, runs, report, dom>>

\* the open report: folder loads, removals and tab clicks in any order
NextDom ==
    \/ LoadFolder /\ UNCHANGED expVars
    \/ RunCloseClick /\ UNCHANGED expVars
    \/ RunTabClick /\ UNCHANGED expVars

SpecDom == Init /\ [][NextDom]_vars

\* most folder loads in a session that uses the compare UI
MaxCmpLoads == 2

\* the open report with the compare UI in use
NextCompare ==
    \/ dom.loads < MaxCmpLoads /\ LoadFolder /\ UNCHANGED expVars
    \/ RunCloseClick /\ UNCHANGED expVars
    \/ CmpToggleChange /\ UNCHANGED expVars
    \/ CmpBtnClick /\ UNCHANGED expVars
    \/ CmpCloseClick /\ UNCHANGED expVars

SpecCompare == Init /\ [][NextCompare]_vars

-----------------------------------------------------------------------------
(* Properties of expand_with_box (under SpecExpand) *)

BoxPrefixes == <<"", "box", "box_", "box-">>

\* the 4 * Len(ss) variants of the expansion rule, before any is dropped
AllVariants(ss) ==
    [i \in 1..(4 * Len(ss)) |-> BoxPrefixes[((i - 1) % 4) + 1] \o ss[((i - 1) \div 4) + 1]]

\* positions of g whose lowercased form occurs at an earlier position
Collisions(g) == {i \in 1..Len(g) : \E j \in 1..(i - 1) : lower(g[j]) = lower(g[i])}

\* g without the elements at colliding positions, order kept
KeepFirst(g) ==
    LET kept == (1..Len(g)) \ Collisions(g)
    IN  [r \in 1..Cardinality(kept) |->
            g[CHOOSE i \in kept : Cardinality({j \in kept : j <= i}) = r]]

\* C7: expand_with_box returns the variants s, box+s, box_+s, box-+s of every base
\* stem in order, without those whose lowercased form was already emitted; the
\* first occurrence keeps its casing.
C7_ExpandRule ==
    xpc = "ret" =>
        /\ Len(variants) = Len(KeepFirst(AllVariants(stems)))
        /\ \A r \in 1..Len(variants) : variants[r] = KeepFirst(AllVariants(stems))[r]

\* a case pair among the base stems: the later one's variants are all dropped
C7_Witness ==
    /\ xpc = "ret"
    /\ stems = <<"pcurve", "cm", "Pcurve">>
    /\ variants = <<"pcurve", "boxpcurve", "box_pcurve", "box-pcurve",
                    "cm", "boxcm", "box_cm", "box-cm">>

\* C8: deduplicating the output of expand_with_box again changes nothing, and the
\* output has 4 * len(base_stems) elements minus one for every generated variant
\* that collides case-insensitively with an earlier one.
C8_DedupIdempotentAndLength ==
    xpc = "ret" =>
        /\ Collisions(variants) = {}
        /\ Len(KeepFirst(variants)) = Len(variants)
        /\ \A r \in 1..Len(variants) : KeepFirst(variants)[r] = variants[r]
        /\ Len(variants) = 4 * Len(stems) - Cardinality(Collisions(AllVariants(stems)))

\* a collision across two different base stems: box + pcurve = boxpcurve
C8_Witness ==
    /\ xpc = "ret"
    /\ stems = <<"pcurve", "boxpcurve">>
    /\ Len(variants) = 7

-----------------------------------------------------------------------------
(* Properties of collect_config_images (under Spec) *)

Keys == {MetricKeys[n] : n \in 1..Len(MetricKeys)}

GalleryTags == {"VAL_LABELS", "VAL_PRED"}

\* the configuration directories of the run directory
ConfigDirs == {d \in DOMAIN fs : fs[d].is_dir /\ endswith(d, "_config")}

LowerName == [n \in FileNameSet |-> lower(n)]

\* the reference of file f of directory d: its MIME type and its bytes
ReferenceOf(d, f) == "data:" \o guess_mime_type(f) \o ";base64," \o fs[d].files[f].b64

\* the <<stem index, extension index>> pairs of key k whose lowercased name is a
\* name in `names`
Hits(names, k) ==
    {h \in (1..Len(METRIC_ALIASES[k])) \X (1..Len(ALLOWED_EXTS)) :
        CandidateLower[k][h[1]][h[2]] \in names}

\* stem first, extension second
Earlier(h, g) == h[1] < g[1] \/ (h[1] = g[1] /\ h[2] <= g[2])

FirstOf(hits) == CHOOSE h \in hits : \A g \in hits : Earlier(h, g)

\* the hits of key k among the files of directory d
PresentHits(d, k) == Hits({LowerName[f] : f \in DOMAIN fs[d].files}, k)

\* the file of directory d that hit h of key k names
FileOfHit(d, k, h) ==
    CHOOSE f \in DOMAIN fs[d].files : LowerName[f] = CandidateLower[k][h[1]][h[2]]

\* C1: under the canonical key of every metric key stands the reference of the
\* file of the first stem, and within that stem the first extension, whose
\* lowercased name is present, when that file is readable: the stem order
\* dominates the extension order.
C1_FirstStemThenFirstExt ==
    pc = "scanned" =>
        \A n \in 1..Len(collected) : \A k \in Keys :
            \A d \in {collected[n].config_name} : \A hits \in {PresentHits(d, k)} :
                hits # {} =>
                    \A f \in {FileOfHit(d, k, FirstOf(hits))} :
                        fs[d].files[f].readable =>
                            collected[n].images[canonical_png_key(k)] = ReferenceOf(d, f)

\* boxP_curve.PNG (stem 2 of P, upper-case extension) beside precision.png
C1_Witness ==
    /\ pc = "scanned"
    /\ \E n \in 1..Len(collected) :
          LET d == collected[n].config_name
          IN  /\ DOMAIN fs[d].files = {"boxP_curve.PNG", "precision.png"}
              /\ \A f \in DOMAIN fs[d].files : fs[d].files[f].readable
              /\ collected[n].images["p_curve.png"] = ReferenceOf(d, "boxP_curve.PNG")
              /\ collected[n].images["p_curve.png"] # ReferenceOf(d, "precision.png")

\* `images` of record n as the metric loop left it, before line 119
BeforeFallback(n) ==
    MetricImages(fs[collected[n].config_name].files,
                 listing.files[collected[n].config_name])

CM_KEY == canonical_png_key("CM")
CMN_KEY == canonical_png_key("CM_N")

\* C3: when the metric loop leaves CM_N's canonical key absent and CM's holding a
\* reference, the record's CM_N canonical key holds CM's reference.
C3_FallbackCopiesCM ==
    pc = "scanned" =>
        \A n \in 1..Len(collected) : \A before \in {BeforeFallback(n)} :
            (before[CMN_KEY] = None /\ before[CM_KEY] # None) =>
                /\ collected[n].images[CMN_KEY] = before[CM_KEY]
                /\ collected[n].images[CMN_KEY] = collected[n].images[CM_KEY]

\* a directory that holds confusion_matrix.png only
C3_Witness ==
    /\ pc = "scanned"
    /\ \E n \in 1..Len(collected) :
          LET d == collected[n].config_name
          IN  /\ DOMAIN fs[d].files = {"confusion_matrix.png"}
              /\ collected[n].images["confusion_matrix_normalized.png"]
                    = ReferenceOf(d, "confusion_matrix.png")
              /\ collected[n].images["confusion_matrix.png"]
                    = ReferenceOf(d, "confusion_matrix.png")

\* C4: the fallback leaves a resolved CM_N alone and changes no other key: every
\* key the metric loop wrote keeps its value, except an absent CM_N canonical key,
\* and the fallback adds no key.
C4_FallbackFrame ==
    pc = "scanned" =>
        \A n \in 1..Len(collected) : \A before \in {BeforeFallback(n)} :
            /\ (DOMAIN collected[n].images) \ GalleryTags = DOMAIN before
            /\ \A key \in DOMAIN before :
                  (key # CMN_KEY \/ before[key] # None) =>
                      collected[n].images[key] = before[key]

\* CM and CM_N both resolved, to different files
C4_Witness ==
    /\ pc = "scanned"
    /\ \E n \in 1..Len(collected) :
          LET d == collected[n].config_name
          IN  /\ DOMAIN fs[d].files = {"confusion_matrix.png", "cm_norm.jpg"}
              /\ collected[n].images[CMN_KEY] = ReferenceOf(d, "cm_norm.jpg")
              /\ collected[n].images[CM_KEY] = ReferenceOf(d, "confusion_matrix.png")

\* the entries of `images` that are not galleries
MetricEntries(images) == [key \in (DOMAIN images) \ GalleryTags |-> images[key]]

\* a directory's entries without the file f
Without(files, f) == [x \in (DOMAIN files) \ {f} |-> files[x]]

\* the enumeration q without the name f
RECURSIVE Skip(_, _)
Skip(q, f) ==
    IF q = <<>> THEN <<>>
    ELSE IF Head(q) = f THEN Skip(Tail(q), f) ELSE <<Head(q)>> \o Skip(Tail(q), f)

\* what the metric part of the record of directory d would be without the file f
MetricEntriesWithout(d, f) ==
    CmFallback(MetricImages(Without(fs[d].files, f),
                            Skip(listing.files[d], f)))

\* C5: a file that cannot be read is a non-match for its name only: the metric
\* entries of the record equal those of the same directory without that file.
C5_UnreadableAsAbsent ==
    pc = "scanned" =>
        \A n \in 1..Len(collected) : \A d \in {collected[n].config_name} :
            \A f \in DOMAIN fs[d].files :
                ~ fs[d].files[f].readable =>
                    \A expected \in {MetricEntriesWithout(d, f)} :
                        /\ DOMAIN MetricEntries(collected[n].images) = DOMAIN expected
                        /\ \A key \in DOMAIN expected :
                              collected[n].images[key] = expected[key]

Range(q) == {q[i] : i \in 1..Len(q)}

\* the references a categorized gallery of the record holds
GalleryRefs(images, tag) ==
    IF tag \in DOMAIN images
    THEN UNION {Range(images[tag][b]) : b \in DOMAIN images[tag]}
    ELSE {}

IsImageName(low) == \E e \in 1..Len(ALLOWED_EXTS) : endswith(low, ALLOWED_EXTS[e])

IsLabelsName(low) == startswith(low, "val_batch") /\ contains(low, "_labels")

IsPredName(low) ==
    startswith(low, "val_batch") /\ contains(low, "_pred") /\ ~ contains(low, "_labels")

SomeUnreadable == \E d \in DOMAIN fs : \E f \in DOMAIN fs[d].files : ~ fs[d].files[f].readable

\* C6: whatever files cannot be read, the scan returns one record for every
\* configuration directory; every metric key none of whose matching files is
\* unreadable still resolves, and every readable val_batch file still reaches
\* its gallery.
C6_ReadFailureNeverAborts ==
    pc = "scanned" =>
        /\ Len(collected) = Cardinality(ConfigDirs)
        /\ {collected[n].config_name : n \in 1..Len(collected)} = ConfigDirs
        /\ \A n \in 1..Len(collected) : \A d \in {collected[n].config_name} :
              /\ \A k \in Keys : \A hits \in {PresentHits(d, k)} :
                    (hits # {} /\ \A h \in hits : fs[d].files[FileOfHit(d, k, h)].readable)
                        => collected[n].images[canonical_png_key(k)] # None
              /\ \A f \in DOMAIN fs[d].files :
                    (fs[d].files[f].readable /\ IsImageName(LowerName[f])) =>
                        /\ IsLabelsName(LowerName[f]) =>
                              ReferenceOf(d, f) \in GalleryRefs(collected[n].images, "VAL_LABELS")
                        /\ IsPredName(LowerName[f]) =>
                              ReferenceOf(d, f) \in GalleryRefs(collected[n].images, "VAL_PRED")

\* an unreadable file in the first directory, a resolved metric in the second
C6_Witness ==
    /\ pc = "scanned"
    /\ Len(collected) = 2
    /\ \E f \in DOMAIN fs[collected[1].config_name].files :
          ~ fs[collected[1].config_name].files[f].readable
    /\ "confusion_matrix.png" \in DOMAIN fs[collected[2].config_name].files
    /\ collected[2].images[CM_KEY]
          = ReferenceOf(collected[2].config_name, "confusion_matrix.png")

\* C9: every record has an entry under the canonical key of every metric key, and
\* the canonical keys of two metric keys differ.
C9_EveryMetricKeyHasItsEntry ==
    pc = "scanned" =>
        \A n \in 1..Len(collected) :
            /\ \A k \in Keys : canonical_png_key(k) \in DOMAIN collected[n].images
            /\ Cardinality({key \in DOMAIN collected[n].images :
                              \E k \in Keys : key = canonical_png_key(k)})
                  = Len(MetricKeys)

\* one metric resolved, the five others absent
C9_Witness ==
    /\ pc = "scanned"
    /\ \E n \in 1..Len(collected) :
          /\ DOMAIN fs[collected[n].config_name].files = {"precision.png"}
          /\ DOMAIN collected[n].images = {canonical_png_key(k) : k \in Keys}
          /\ collected[n].images["p_curve.png"] # None
          /\ \A k \in Keys \ {"P"} : collected[n].images[canonical_png_key(k)] = None

\* C10: a metric key none of whose stem + extension names is present maps its
\* canonical key to None, except CM_N when CM resolved: then it maps to CM's
\* reference.
C10_AbsentMetricMapsToNone ==
    pc = "scanned" =>
        \A n \in 1..Len(collected) : \A k \in Keys :
            PresentHits(collected[n].config_name, k) = {} =>
                /\ canonical_png_key(k) \in DOMAIN collected[n].images
                /\ collected[n].images[canonical_png_key(k)] =
                      IF k = "CM_N" THEN collected[n].images[CM_KEY] ELSE None

\* no PR file beside a resolved P file and a file that is no image
C10_Witness ==
    /\ pc = "scanned"
    /\ \E n \in 1..Len(collected) :
          /\ DOMAIN fs[collected[n].config_name].files = {"notes.txt", "boxP_curve.JPG"}
          /\ collected[n].images["pr_curve.png"] = None
          /\ collected[n].images[CMN_KEY] = None
          /\ collected[n].images["p_curve.png"]
                = ReferenceOf(collected[n].config_name, "boxP_curve.JPG")

-----------------------------------------------------------------------------
(* The loader against the resolver (under Spec) *)

\* the file of directory d a reference of the resolver was made from
PyFile(d, v) ==
    IF v = None THEN None
    ELSE CHOOSE f \in DOMAIN fs[d].files : ReferenceOf(d, f) = v

\* the loader's entry of directory d
LoaderEntry(d) == IF d \in DOMAIN byConfig THEN byConfig[d] ELSE EmptyImages

\* the file of directory d the loader shows under key
JsFile(d, key) ==
    IF ~ JsTruthy(LoaderEntry(d), key) THEN None
    ELSE CHOOSE f \in DOMAIN fs[d].files : createObjectURL(d, f) = LoaderEntry(d)[key]

PyGalleryFiles(d, images, tag) ==
    {f \in DOMAIN fs[d].files : ReferenceOf(d, f) \in GalleryRefs(images, tag)}

JsGalleryFiles(d, tag) ==
    IF tag \in DOMAIN LoaderEntry(d)
    THEN {f \in DOMAIN fs[d].files : createObjectURL(d, f) \in Range(LoaderEntry(d)[tag])}
    ELSE {}

\* C2: on a configuration directory of readable files the loader shows, under
\* every metric key's canonical name, the file the resolver stored there, and
\* sends the same files to the labeled and to the predicted gallery.
C2_LoaderAgreesWithResolver ==
    pc = "loaded" =>
        \A n \in 1..Len(collected) : \A d \in {collected[n].config_name} :
            (\A f \in DOMAIN fs[d].files : fs[d].files[f].readable) =>
                /\ \A k \in Keys :
                      JsFile(d, alias_payload.canonical[k])
                          = PyFile(d, collected[n].images[canonical_png_key(k)])
                /\ \A tag \in GalleryTags :
                      JsGalleryFiles(d, tag) = PyGalleryFiles(d, collected[n].images, tag)

-----------------------------------------------------------------------------
(* Secondary keys and extension precedence (under Spec) *)

\* the accepted extension the lowercased name of file f ends with
ExtOf(f) == CHOOSE x \in Range(ALLOWED_EXTS) : endswith(LowerName[f], x)

\* the secondary keys metric key k can write: first stem + a non-primary extension
SecondaryKeys(k) ==
    {METRIC_ALIASES[k][1] \o ALLOWED_EXTS[j] : j \in 2..Len(ALLOWED_EXTS)}

\* C11: a metric that resolved through a file of a non-primary extension has the
\* same reference under its canonical key and under first stem + that extension,
\* and under no other secondary key; a metric that resolved through a .png file
\* has no secondary key at all.
C11_SecondaryKeyBesideCanonical ==
    pc = "scanned" =>
        \A n \in 1..Len(collected) : \A d \in {collected[n].config_name} :
            \A k \in Keys : \A v \in {BeforeFallback(n)[canonical_png_key(k)]} :
                v # None =>
                    \A x \in {ExtOf(PyFile(d, v))} :
                        /\ x # ALLOWED_EXTS[1] =>
                              /\ METRIC_ALIASES[k][1] \o x \in DOMAIN collected[n].images
                              /\ collected[n].images[METRIC_ALIASES[k][1] \o x] = v
                              /\ collected[n].images[canonical_png_key(k)] = v
                        /\ SecondaryKeys(k) \cap DOMAIN collected[n].images
                              = IF x = ALLOWED_EXTS[1] THEN {}
                                ELSE {METRIC_ALIASES[k][1] \o x}

\* P resolved through boxP_curve.JPG beside PR resolved through pr_curve.png
C11_Witness ==
    /\ pc = "scanned"
    /\ \E n \in 1..Len(collected) :
          LET d == collected[n].config_name
          IN  /\ DOMAIN fs[d].files = {"boxP_curve.JPG", "pr_curve.png"}
              /\ collected[n].images["p_curve.png"] = ReferenceOf(d, "boxP_curve.JPG")
              /\ collected[n].images["p_curve.jpg"] = ReferenceOf(d, "boxP_curve.JPG")
              /\ collected[n].images["pr_curve.png"] = ReferenceOf(d, "pr_curve.png")
              /\ "pr_curve.jpg" \notin DOMAIN collected[n].images

\* C12: when the first stem of a metric key that is present at all is present
\* with several extensions and its first-listed extension is readable, the
\* canonical key holds the file of the first-listed extension, and every order
\* in which the directory can be enumerated gives that same entry.
C12_FirstExtensionWins ==
    pc = "scanned" =>
        \A n \in 1..Len(collected) : \A d \in {collected[n].config_name} :
            \A k \in Keys : \A hits \in {PresentHits(d, k)} :
                (hits # {} /\ Cardinality({h \in hits : h[1] = FirstOf(hits)[1]}) > 1) =>
                    \A f \in {FileOfHit(d, k, FirstOf(hits))} :
                        /\ \A h \in hits : h[1] = FirstOf(hits)[1] => FirstOf(hits)[2] <= h[2]
                        /\ fs[d].files[f].readable =>
                              /\ collected[n].images[canonical_png_key(k)] = ReferenceOf(d, f)
                              /\ \A q \in Perms(DOMAIN fs[d].files) :
                                    MetricImages(fs[d].files, q)[canonical_png_key(k)]
                                        = ReferenceOf(d, f)

\* pr_curve.jpg enumerated before pr_curve.png: the .png is stored
C12_Witness ==
    /\ pc = "scanned"
    /\ \E n \in 1..Len(collected) :
          LET d == collected[n].config_name
          IN  /\ listing.files[d] = <<"pr_curve.jpg", "pr_curve.png">>
              /\ \A f \in DOMAIN fs[d].files : fs[d].files[f].readable
              /\ collected[n].images["pr_curve.png"] = ReferenceOf(d, "pr_curve.png")

-----------------------------------------------------------------------------
(* Galleries (under Spec) *)

\* val_labels, val_preds and all_imgs of record n as line 141 leaves them
Galleries(n) ==
    LET d == collected[n].config_name
    IN  GalleryLoop(fs[d].files, present_of(is_file_only(fs[d].files, listing.files[d])),
                    present_keys(is_file_only(fs[d].files, listing.files[d]), 1), 1,
                    [val_labels |-> <<>>, val_preds |-> <<>>, all_imgs |-> <<>>])

\* the readable files of directory d with an accepted extension, as enumerated
ImageFiles(d) ==
    SelectSeq(listing.files[d],
              LAMBDA f : fs[d].files[f].readable /\ IsImageName(LowerName[f]))

LabeledFiles(d) == SelectSeq(ImageFiles(d), LAMBDA f : IsLabelsName(LowerName[f]))

PredictedFiles(d) ==
    SelectSeq(ImageFiles(d),
              LAMBDA f : ~ IsLabelsName(LowerName[f])
                         /\ startswith(LowerName[f], "val_batch")
                         /\ contains(LowerName[f], "_pred"))

GenericFiles(d) ==
    SelectSeq(ImageFiles(d),
              LAMBDA f : ~ IsLabelsName(LowerName[f])
                         /\ ~ (startswith(LowerName[f], "val_batch")
                                /\ contains(LowerName[f], "_pred")))

\* the references of the files q of directory d, in the order of q
RefsOf(d, q) == [i \in 1..Len(q) |-> ReferenceOf(d, q[i])]

\* C13: the labeled list holds the readable image files named val_batch*_labels*
\* (with or without _pred), the predicted list the other val_batch*_pred* ones,
\* the generic list every other one; each file is in exactly one list, and the
\* record's two categorized galleries hold the files of the first two lists.
C13_GalleryFirstMatchWins ==
    pc = "scanned" =>
        \A n \in 1..Len(collected) : \A d \in {collected[n].config_name} :
            \A g \in {Galleries(n)} :
                /\ g.val_labels = RefsOf(d, LabeledFiles(d))
                /\ g.val_preds = RefsOf(d, PredictedFiles(d))
                /\ g.all_imgs = RefsOf(d, GenericFiles(d))
                /\ \A i \in 1..Len(ImageFiles(d)) :
                      Cardinality({x \in {"l", "p", "a"} :
                          ReferenceOf(d, ImageFiles(d)[i]) \in
                              Range(CASE x = "l" -> g.val_labels
                                      [] x = "p" -> g.val_preds
                                      [] x = "a" -> g.all_imgs)}) = 1
                /\ Len(g.val_labels) + Len(g.val_preds) + Len(g.all_imgs)
                      = Len(ImageFiles(d))
                /\ GalleryRefs(collected[n].images, "VAL_LABELS") = Range(g.val_labels)
                /\ GalleryRefs(collected[n].images, "VAL_PRED") = Range(g.val_preds)

\* a name with _labels and _pred beside a name with _pred only
C13_Witness ==
    /\ pc = "scanned"
    /\ \E n \in 1..Len(collected) :
          LET d == collected[n].config_name
          IN  /\ DOMAIN fs[d].files = {"val_batch0_labels_pred.png", "val_batch0_pred.jpg"}
              /\ \A f \in DOMAIN fs[d].files : fs[d].files[f].readable
              /\ GalleryRefs(collected[n].images, "VAL_LABELS")
                    = {ReferenceOf(d, "val_batch0_labels_pred.png")}
              /\ GalleryRefs(collected[n].images, "VAL_PRED")
                    = {ReferenceOf(d, "val_batch0_pred.jpg")}

\* batch_1 .. batch_m
BatchLabels(m) == {"batch_" \o ToString(i) : i \in 1..m}

\* the entry `tag` of `images` is the categorized mapping of the references refs:
\* batch_i holds the i-th reference alone; no entry when refs is empty
Categorized(images, tag, refs) ==
    IF refs = <<>> THEN tag \notin DOMAIN images
    ELSE /\ tag \in DOMAIN images
         /\ DOMAIN images[tag] = BatchLabels(Len(refs))
         /\ \A i \in 1..Len(refs) : images[tag]["batch_" \o ToString(i)] = <<refs[i]>>

\* C14: n >= 1 labeled (predicted) files give VAL_LABELS (VAL_PRED) the n keys
\* batch_1 .. batch_n, in encounter order, each holding one image.
C14_OneBatchKeyPerFile ==
    pc = "scanned" =>
        \A n \in 1..Len(collected) : \A d \in {collected[n].config_name} :
            /\ Categorized(collected[n].images, "VAL_LABELS", RefsOf(d, LabeledFiles(d)))
            /\ Categorized(collected[n].images, "VAL_PRED", RefsOf(d, PredictedFiles(d)))

\* val_batch1_labels.jpg enumerated before val_batch0_labels.jpg
C14_Witness ==
    /\ pc = "scanned"
    /\ \E n \in 1..Len(collected) :
          LET d == collected[n].config_name
          IN  /\ listing.files[d] = <<"val_batch1_labels.jpg", "val_batch0_labels.jpg">>
              /\ \A f \in DOMAIN fs[d].files : fs[d].files[f].readable
              /\ DOMAIN collected[n].images["VAL_LABELS"] = {"batch_1", "batch_2"}
              /\ collected[n].images["VAL_LABELS"]["batch_1"]
                    = <<ReferenceOf(d, "val_batch1_labels.jpg")>>
              /\ collected[n].images["VAL_LABELS"]["batch_2"]
                    = <<ReferenceOf(d, "val_batch0_labels.jpg")>>

\* every key a metric can write: canonical and secondary
MetricKeyNames ==
    UNION {{METRIC_ALIASES[k][1] \o ALLOWED_EXTS[j] : j \in 1..Len(ALLOWED_EXTS)} : k \in Keys}

\* C15: when a readable image file is classified generic, the record has an
\* entry, beside the metric entries and the two categorized galleries, that
\* holds the ordered list of the generic references.
C15_GenericGalleryExposed ==
    pc = "scanned" =>
        \A n \in 1..Len(collected) : \A d \in {collected[n].config_name} :
            GenericFiles(d) # <<>> =>
                \E key \in (DOMAIN collected[n].images) \ (MetricKeyNames \cup GalleryTags) :
                    collected[n].images[key] = RefsOf(d, GenericFiles(d))

\* C16: a directory none of whose files has an accepted extension gives a
\* record whose keys are the six canonical keys, each mapped to None.
C16_NothingRecognized ==
    pc = "scanned" =>
        \A n \in 1..Len(collected) : \A d \in {collected[n].config_name} :
            (\A f \in DOMAIN fs[d].files : ~ IsImageName(LowerName[f])) =>
                /\ DOMAIN collected[n].images = {canonical_png_key(k) : k \in Keys}
                /\ \A k \in Keys : collected[n].images[canonical_png_key(k)] = None

\* an empty configuration directory beside one that holds only notes.txt
C16_Witness ==
    /\ pc = "scanned"
    /\ Len(collected) = 2
    /\ DOMAIN fs[collected[1].config_name].files = {}
    /\ DOMAIN fs[collected[2].config_name].files = {"notes.txt"}
    /\ \A n \in 1..2 : \A k \in Keys : collected[n].images[canonical_png_key(k)] = None
    /\ \A n \in 1..2 : DOMAIN collected[n].images \cap GalleryTags = {}

-----------------------------------------------------------------------------
(* Configuration directories and runs (under SpecTree) *)

\* the configuration names of the records rs, in their order
NamesOf(rs) == [i \in 1..Len(rs) |-> rs[i].config_name]

\* a is not after b in the order of lowercased names
LowerLeq(a, b) == ~ StrLess(lower(b), lower(a))

\* C17: the records are in case-insensitive name order, and every order in which
\* the run directory's children can be enumerated gives the same sequence of
\* configuration names.
C17_OrderIndependentOfEnumeration ==
    pc = "scanned" =>
        /\ \A i \in 1..(Len(collected) - 1) :
              LowerLeq(collected[i].config_name, collected[i + 1].config_name)
        /\ \A q \in Perms(DOMAIN fs) :
              NamesOf(collect_config_images(fs, [top |-> q, files |-> listing.files]))
                  = NamesOf(collected)

\* name ends with the seven characters _config
HasConfigSuffix(name) ==
    Len(name) >= 7 /\ SubSeq(name, Len(name) - 6, Len(name)) = "_config"

\* C18: one record for each child of the run directory that is a directory and
\* whose name ends with _config, named after it, and no other record: none for
\* a regular file, for a directory ending in _CONFIG, for a nested directory.
C18_OneRecordPerConfigDir ==
    pc = "scanned" =>
        /\ \A d \in DOMAIN fs :
              (fs[d].is_dir /\ HasConfigSuffix(d)) =>
                  Cardinality({n \in 1..Len(collected) : collected[n].config_name = d}) = 1
        /\ \A n \in 1..Len(collected) :
              /\ collected[n].config_name \in DOMAIN fs
              /\ fs[collected[n].config_name].is_dir
              /\ HasConfigSuffix(collected[n].config_name)

\* a_config holding a nested n_config, beside b_CONFIG and the regular file
\* f_config: one record, a_config
C18_Witness ==
    /\ pc = "scanned"
    /\ DOMAIN fs = {"a_config", "b_CONFIG", "f_config"}
    /\ ~ fs["f_config"].is_dir
    /\ DOMAIN fs["a_config"].files = {"n_config"}
    /\ NamesOf(collected) = <<"a_config">>

\* the directories discover_runs is to return: the root if a child of it is a
\* directory ending in _config, and every child directory one of whose entries
\* is a directory ending in _config
ExpectedRunPaths ==
    (IF \E c \in DOMAIN fs : fs[c].is_dir /\ HasConfigSuffix(c) THEN {RootPath} ELSE {})
    \cup {c \in DOMAIN fs :
            /\ fs[c].is_dir
            /\ \E n \in DOMAIN fs[c].files : ~ fs[c].files[n].is_file /\ HasConfigSuffix(n)}

C20_RunsSortedAndNonEmpty ==
    pc = "discovered" =>
        /\ \A i \in 1..(Len(runs) - 1) : LowerLeq(runs[i].run_name, runs[i + 1].run_name)
        /\ \A i \in 1..Len(runs) : Len(runs[i].configs) >= 1

\* the root, a run itself, is found before its child run1 and sorted after it;
\* the child Run2, which holds no configuration directory, is dropped
C20_Witness ==
    /\ pc = "discovered"
    /\ DOMAIN fs = {"a_config", "run1", "Run2"}
    /\ DOMAIN fs["run1"].files = {"n_config"}
    /\ DOMAIN fs["Run2"].files = {}
    /\ Len(runs) = 2
    /\ runs[1].run_name = "run1"
    /\ runs[2].run_name = RootName
    /\ NamesOf(runs[2].configs) = <<"a_config">>

-----------------------------------------------------------------------------
(* The report main writes (C21, C22) *)

\* C21: the document main wrote has, for every run discover_runs returned, a
\* panel of that run's name holding for every metric and every configuration of
\* the run an image block or a Missing placeholder.
C21_DiscoveredRunsEmbedded ==
    pc = "written" =>
        \A i \in 1..Len(runs) :
            \E el \in Range(report[1].html.body) :
                /\ el.tag = "section"
                /\ el.label = runs[i].run_name
                /\ el.cards = RenderCards(runs[i].configs, 1, 1)

\* C22: when neither the root nor a child of it holds a directory ending in
\* _config, discover_runs returns the empty list, and main then writes one
\* report, under the root, whose run tab bar is empty and which has no run panel.
C22_NoRunsIsNotAnError ==
    ExpectedRunPaths = {} =>
        /\ pc \in {"discovered", "written"} => runs = <<>>
        /\ pc = "written" =>
              /\ Len(report) = 1
              /\ report[1].path = RootPath \o "/YOLOmetrics_report.html"
              /\ report[1].html.run_tabs = <<>>
              /\ RunPanels(report[1].html.body) = <<>>
              /\ report[1].html.body = <<NoRunsMsg(0)>>

\* main ran on a root that holds a directory without configurations, an empty
\* configuration-named file and nothing that makes a run
C22_Witness ==
    /\ pc = "written"
    /\ ExpectedRunPaths = {}
    /\ DOMAIN fs = {"run1", "f_config"}
    /\ DOMAIN fs["run1"].files = {"x_config"}
    /\ runs = <<>>
    /\ Len(report) = 1

-----------------------------------------------------------------------------
(* Determinism and the canonical key (C23, C24) *)

\* C23, as stated: collect_config_images run again on the unchanged directory
\* returns the records it returned before, whatever order the directory is
\* enumerated in: the result is a function of the directory contents alone.
C23_SameContentsSameRecords ==
    pc = "scanned" =>
        \A e \in Enumerations : collect_config_images(fs, e) = collected

\* C23, amended: a second run that enumerates the unchanged directory in the
\* same order returns identical records; under any other order it returns the
\* same record names in the same order, the same keys, the same metric
\* references and, per gallery, the same set of references (file names here
\* differ in more than letter case and so do the directory names).
C23_SameEnumerationSameRecords ==
    pc = "scanned" =>
        \A e \in Enumerations : \A again \in {collect_config_images(fs, e)} :
            /\ e = listing => again = collected
            /\ NamesOf(again) = NamesOf(collected)
            /\ \A n \in 1..Len(again) :
                  /\ DOMAIN again[n].images = DOMAIN collected[n].images
                  /\ \A key \in (DOMAIN again[n].images) \ GalleryTags :
                        again[n].images[key] = collected[n].images[key]
                  /\ \A tag \in GalleryTags :
                        GalleryRefs(again[n].images, tag)
                            = GalleryRefs(collected[n].images, tag)

\* two label images beside nothing else: the second run can meet them in the
\* other order, and batch_1 then holds the other image
C23_Witness ==
    /\ pc = "scanned"
    /\ Len(collected) = 1
    /\ "VAL_LABELS" \in DOMAIN collected[1].images
    /\ DOMAIN collected[1].images["VAL_LABELS"] = {"batch_1", "batch_2"}
    /\ \E e \in Enumerations :
          /\ e # listing
          /\ collect_config_images(fs, e) # collected

\* C24: for every metric key the resolver's output key, the payload's canonical
\* name and the key the renderer (and the loader's metric table) reads are the
\* same string, first expanded stem + .png; the payload's alias lists and
\* extension list are the resolver's, element for element; so every record has
\* the key the renderer reads and the loader writes no metric key but these.
C24_CanonicalKeysAgree ==
    /\ \A i \in 1..Len(MetricKeys) : \A k \in {MetricKeys[i]} :
          /\ canonical_png_key(k) = METRIC_ALIASES[k][1] \o ".png"
          /\ alias_payload.canonical[k] = canonical_png_key(k)
          /\ metric_specs[i].fname = canonical_png_key(k)
          /\ LoaderMetrics[i][3] = canonical_png_key(k)
          /\ Len(alias_payload.alias[k]) = Len(METRIC_ALIASES[k])
          /\ \A j \in 1..Len(METRIC_ALIASES[k]) :
                alias_payload.alias[k][j] = METRIC_ALIASES[k][j]
    /\ DOMAIN alias_payload.alias = DOMAIN METRIC_ALIASES
    /\ Len(alias_payload.exts) = Len(ALLOWED_EXTS)
    /\ \A j \in 1..Len(ALLOWED_EXTS) : alias_payload.exts[j] = ALLOWED_EXTS[j]
    /\ pc \in {"scanned", "loaded"} =>
          \A n \in 1..Len(collected) : \A i \in 1..Len(MetricKeys) :
              metric_specs[i].fname \in DOMAIN collected[n].images
    /\ pc = "loaded" =>
          \A cfg \in DOMAIN byConfig :
              DOMAIN byConfig[cfg] \subseteq
                  {metric_specs[i].fname : i \in 1..Len(MetricKeys)}
                  \cup {"VAL_LABELS", "VAL_PRED", "ALL_IMAGES"}

\* the resolver and the loader both resolved P, from boxP_curve.PNG, and both
\* stored it under p_curve.png
C24_Witness ==
    /\ pc = "loaded"
    /\ Len(collected) = 1
    /\ DOMAIN fs[collected[1].config_name].files = {"boxP_curve.PNG"}
    /\ Truthy(collected[1].images["p_curve.png"])
    /\ collected[1].config_name \in DOMAIN byConfig
    /\ "p_curve.png" \in DOMAIN byConfig[collected[1].config_name]

-----------------------------------------------------------------------------
(* Independence of the records, the secondary keys (C25, C27) *)

\* the run directory with the files of child b made unreadable
WithUnreadable(b) ==
    [fs EXCEPT ![b].files = [f \in DOMAIN @ |-> [@[f] EXCEPT !.readable = FALSE]]]

\* the run directory with child b emptied, and its enumeration
Emptied(b) == [fs EXCEPT ![b].files = NoFiles]
EmptiedListing(b) == [listing EXCEPT !.files[b] = <<>>]

\* C25: the record of a configuration directory is the record the pass returns
\* for that directory standing alone, and it stays the same when the files of
\* another child are removed or made unreadable.
C25_RecordsIndependent ==
    pc = "scanned" =>
        /\ \A a \in ConfigDirs :
              \E n \in 1..Len(collected) :
                  <<collected[n]>> =
                      collect_config_images([d \in {a} |-> fs[d]],
                                            [top |-> <<a>>,
                                             files |-> [d \in {a} |-> listing.files[a]]])
        /\ \A b \in DOMAIN fs :
              \A emptied \in {collect_config_images(Emptied(b), EmptiedListing(b))},
                 unreadable \in {collect_config_images(WithUnreadable(b), listing)} :
                  /\ Len(emptied) = Len(collected)
                  /\ Len(unreadable) = Len(collected)
                  /\ \A n \in 1..Len(collected) :
                        collected[n].config_name # b =>
                            /\ emptied[n] = collected[n]
                            /\ unreadable[n] = collected[n]

\* a_config resolved P from a readable file while B_config holds one file, which
\* cannot be read
C25_Witness ==
    /\ pc = "scanned"
    /\ NamesOf(collected) = <<"a_config", "B_config">>
    /\ DOMAIN fs["a_config"].files = {"boxP_curve.JPG"}
    /\ fs["a_config"].files["boxP_curve.JPG"].readable
    /\ DOMAIN fs["B_config"].files = {"pr_curve.png"}
    /\ ~ fs["B_config"].files["pr_curve.png"].readable
    /\ Truthy(collected[1].images["p_curve.png"])
    /\ "p_curve.jpg" \in DOMAIN collected[1].images
    /\ "p_curve.jpg" \notin DOMAIN collected[2].images

\* C27: a secondary key (first stem + a non-primary extension) of a record is
\* never mapped to None and maps to the reference the metric's canonical key
\* maps to, also when the matched file could not be read.
C27_SecondaryKeyNeverAbsent ==
    pc = "scanned" =>
        \A n \in 1..Len(collected) : \A k \in Keys :
            \A key \in SecondaryKeys(k) \cap DOMAIN collected[n].images :
                /\ collected[n].images[key] # None
                /\ collected[n].images[key] = collected[n].images[canonical_png_key(k)]

-----------------------------------------------------------------------------
(* The open report: Add Run, Remove, Compare (C26, C28, C29, C30) *)

\* what a run panel shows: its element, id, run name and cards
Shown(el) == [uid |-> el.uid, id |-> el.id, label |-> el.label, cards |-> el.cards]

\* a tab bar button without its selection state
Bare(b) == [kind |-> b.kind, uid |-> b.uid, controls |-> b.controls, label |-> b.label]

C28_PanelIdsDistinct ==
    LET panels == RunPanels(dom.body)
    IN  /\ \A i, j \in 1..Len(panels) : i # j => panels[i].id # panels[j].id
        /\ \A b \in 1..Len(dom.tabs) :
              dom.tabs[b].kind = "tab" =>
                  {panels[i].uid : i \in {x \in 1..Len(panels) :
                                            panels[x].id = dom.tabs[b].controls}}
                      = {dom.tabs[b].uid}

\* C29: the document holds a #noRunsMsg element if and only if no run is
\* loaded (no run tab, no run panel).
C29_MessageIffNoRun ==
    (\E i \in 1..Len(dom.body) : dom.body[i].id = "noRunsMsg")
        <=> (dom.tabs = <<>> /\ RunPanels(dom.body) = <<>>)

\* the selection list: at most two entries, of one run, metric tab and
\* category; the Compare button enabled exactly when there are two
CompareSelectionOk ==
    /\ Len(cmp.selected) <= 2
    /\ \A i, j \in 1..Len(cmp.selected) :
          /\ cmp.selected[i].run = cmp.selected[j].run
          /\ cmp.selected[i].metric = cmp.selected[j].metric
          /\ cmp.selected[i].cat = cmp.selected[j].cat
    /\ (~ cmp.disabled) <=> (Len(cmp.selected) = 2)
    /\ cmp.count = Len(cmp.selected)

\* C30: after any sequence of check and uncheck events the selection list
\* holds at most 2 entries of the same run, metric tab and category and the
\* Compare button is enabled iff it holds exactly 2; a check either appends the
\* checkbox's entry and leaves the box ticked, or (rejected) leaves the list as
\* it was and the box unticked, and it is rejected exactly when the list is
\* full or its entry differs in run, metric tab or category.
C30_CompareSelection ==
    /\ []CompareSelectionOk
    /\ [][dom' = dom => \A t \in Checkboxes(dom) :
            (t.el \notin cmp.checked /\ cmp' = CmpToggle(cmp, t)) =>
                LET fits == \/ cmp.selected = <<>>
                            \/ /\ Len(cmp.selected) = 1
                               /\ cmp.selected[1].run = t.run
                               /\ cmp.selected[1].metric = t.metric
                               /\ cmp.selected[1].cat = t.cat
                IN  IF fits
                    THEN /\ cmp'.selected = Append(cmp.selected, Meta(t))
                         /\ cmp'.checked = cmp.checked \cup {t.el}
                    ELSE /\ cmp'.selected = cmp.selected
                         /\ cmp'.checked = cmp.checked
                         /\ cmp'.disabled = cmp.disabled
      ]_vars

\* two configurations of runB selected in the P tab, Compare enabled, after a
\* check in another tab was rejected
C30_Witness ==
    /\ Len(cmp.selected) = 2
    /\ ~ cmp.disabled
    /\ cmp.selected[1].run = "runB"
    /\ cmp.selected[1].metric = "tab-p"
    /\ cmp.selected[1].config # cmp.selected[2].config
    /\ cmp.alert = "metric"
    /\ Cardinality(cmp.checked) = 2

====
